---- MODULE Spec2Model ----
(***************************************************************************)
(* find_archive_files.py: ArchiveFileFinder.                               *)
(*                                                                         *)
(* run() checks authentication, creates the two output files, enumerates   *)
(* the projects of the organization, maps process_project over them on a   *)
(* ThreadPoolExecutor(max_workers=5), aggregates the outcomes and appends   *)
(* them to the CSV.  process_project sets the gcloud project context,      *)
(* lists the buckets, and calls search_bucket on each of them.             *)
(*                                                                         *)
(* Strings are modelled as sequences of tokens: "/" and "." are tokens of  *)
(* their own, every maximal run of other characters is one token, and the  *)
(* glob operators "*" and "**" are tokens of a pattern.                    *)
(***************************************************************************)
EXTENDS Integers, Sequences, FiniteSets, TLC

\* ------------------------------------------------------------------ bounds

\* Number of projects the organization holds.
MaxProjects == 2

\* ThreadPoolExecutor(max_workers=5)
max_workers == 5

\* ------------------------------------------------------ sequence helpers

RECURSIVE Concat(_)
\* The concatenation of a sequence of sequences.
Concat(ss) == IF ss = <<>> THEN <<>> ELSE Head(ss) \o Concat(Tail(ss))

RECURSIVE SumLen(_)
\* The total length of a sequence of sequences.
SumLen(ss) == IF ss = <<>> THEN 0 ELSE Len(Head(ss)) + SumLen(Tail(ss))

Range(s) == {s[i] : i \in 1..Len(s)}

\* str.endswith
EndsWith(s, suffix) ==
    /\ Len(s) >= Len(suffix)
    /\ SubSeq(s, Len(s) - Len(suffix) + 1, Len(s)) = suffix

RECURSIVE NonBlank(_)
\* [x for x in text.split('\n') if x]: the blank lines of an output dropped.
NonBlank(lines) ==
    IF lines = <<>> THEN <<>>
    ELSE IF Head(lines) = <<>> THEN NonBlank(Tail(lines))
    ELSE <<Head(lines)>> \o NonBlank(Tail(lines))

RECURSIVE Strip(_)
\* str.strip() on an output held as lines: leading and trailing blank lines go.
Strip(lines) ==
    IF lines = <<>> THEN <<>>
    ELSE IF Head(lines) = <<>> THEN Strip(Tail(lines))
    ELSE IF lines[Len(lines)] = <<>> THEN Strip(SubSeq(lines, 1, Len(lines) - 1))
    ELSE lines

\* ------------------------------------------------------ program constants

\* self.skipped_bucket
skipped_bucket == <<"gs://", "angels-bbops-video-dr", "/">>

\* self.archive_types
archive_types ==
    << <<".", "zip">>, <<".", "tar">>, <<".", "tar", ".", "gz">>, <<".", "gz">> >>

\* The name search_bucket treats as the known bucket.
known_bucket_name == "bkt-prj-b-seed-tfstate-b052"

\* The header row of the CSV and the comment line of the errors file.
CsvHeader == <<"project_id", "bucket_url", "file_type", "file_path">>
ErrorsComment == <<"# Projects with permission issues", "\n">>

\* ------------------------------------------------------ the gsutil wildcard

RECURSIVE Match(_, _)
\* gsutil's wildcard match of a whole URL: "*" matches within one path
\* component, "**" matches across components, everything else is literal.
Match(p, s) ==
    IF p = <<>> THEN s = <<>>
    ELSE IF Head(p) = "**"
         THEN \E k \in 0..Len(s) : Match(Tail(p), SubSeq(s, k + 1, Len(s)))
    ELSE IF Head(p) = "*"
         THEN \E k \in 0..Len(s) :
                 /\ \A i \in 1..k : s[i] # "/"
                 /\ Match(Tail(p), SubSeq(s, k + 1, Len(s)))
    ELSE s # <<>> /\ Head(s) = Head(p) /\ Match(Tail(p), Tail(s))

\* The URLs of a bucket's objects that a pattern matches, in listing order.
Matches(pattern, urls) == SelectSeq(urls, LAMBDA u : Match(pattern, u))

\* --------------------------------------------------- faults of one search

NoFault == [kind |-> "none", phase |-> "none", ext |-> 0, pat |-> 0]

\* A listing command of one search_bucket call that the environment makes
\* exit non-zero ("fail"), makes subprocess.run raise something other than
\* CalledProcessError ("raise"), or whose output holds a blank line ("blank").
Faults ==
    {NoFault}
    \cup [kind : {"fail", "raise"}, phase : {"root"}, ext : {0}, pat : {1}]
    \cup [kind : {"fail", "raise"}, phase : {"broad"}, ext : {0}, pat : 1..3]
    \cup [kind : {"fail", "raise", "blank"}, phase : {"archive"},
          ext : 1..Len(archive_types), pat : 1..5]

FaultAt(fault, phase, e, k) ==
    IF fault.phase = phase /\ fault.ext = e /\ fault.pat = k
    THEN fault.kind ELSE "none"

\* run_gcloud_command on a gsutil listing: (stdout.strip() as lines, success),
\* or the exception subprocess.run raised.  gsutil exits non-zero when the
\* pattern matches no object.
run_gcloud_command(pattern, urls, kind) ==
    IF kind = "raise"
    THEN [raised |-> TRUE, ok |-> FALSE, lines |-> <<>>]
    ELSE IF kind = "fail"
    THEN [raised |-> FALSE, ok |-> FALSE, lines |-> <<>>]
    ELSE CHOOSE resp \in
            { IF found = <<>>
              THEN [raised |-> FALSE, ok |-> FALSE, lines |-> <<>>]
              ELSE IF kind = "blank"
              THEN [raised |-> FALSE, ok |-> TRUE,
                    lines |-> Strip(<< <<>>, Head(found), <<>> >>
                                    \o Tail(found) \o << <<>> >>)]
              ELSE [raised |-> FALSE, ok |-> TRUE, lines |-> Strip(found)]
              : found \in {Matches(pattern, urls)} } : TRUE

\* ------------------------------------------------------------ search_bucket

is_known_bucket(bucket_url) == known_bucket_name \in Range(bucket_url)

broad_patterns(bucket_url) ==
    << bucket_url \o <<"**">>,
       bucket_url \o <<"*">>,
       bucket_url \o <<"**", "/", "*">> >>

patterns(bucket_url, ext) ==
    << bucket_url \o <<"**">> \o ext,
       bucket_url \o <<"*">> \o ext,
       bucket_url \o <<"**", "/", "*">> \o ext,
       bucket_url \o <<"*", "/", "*">> \o ext,
       bucket_url \o <<"**", "/", "*", ".">> \o ext >>

\* The record of one matched line: ext[1:] and the raw line.
ArchiveRecord(ext, file_path) == [file_type |-> Tail(ext), file_path |-> file_path]

RecordsOf(ext, lines) ==
    LET kept == NonBlank(lines)
    IN  [i \in 1..Len(kept) |-> ArchiveRecord(ext, kept[i])]

\* A faulty variant of pattern_step: a failed listing drops what was collected.
pattern_step_reset(results, ext, resp) ==
    IF ~resp.ok THEN <<>> ELSE results \o RecordsOf(ext, resp.lines)

\* The body of the inner loop after the command returned: a failed command
\* is skipped, a successful one appends one record per non-blank line.
pattern_step(results, ext, resp) ==
    IF ~resp.ok THEN results
    ELSE IF resp.lines = <<>> THEN results
    ELSE results \o RecordsOf(ext, resp.lines)

\* The listing of the root of the known bucket; any exception is swallowed.
root_phase(bucket_url) == IF is_known_bucket(bucket_url) THEN 1 ELSE 0

RECURSIVE broad_phase(_, _, _, _)
\* The broad listings: the number of commands issued.  An exception leaves
\* the loop and is swallowed.
broad_phase(bucket_url, urls, fault, k) ==
    IF k > Len(broad_patterns(bucket_url)) THEN 0
    ELSE IF run_gcloud_command(broad_patterns(bucket_url)[k], urls,
                               FaultAt(fault, "broad", 0, k)).raised
         THEN 1
    ELSE 1 + broad_phase(bucket_url, urls, fault, k + 1)

RECURSIVE archive_phase(_, _, _, _, _, _, _)
\* for ext in self.archive_types: for pattern in patterns: ...
\* Only CalledProcessError is caught, and run_gcloud_command never lets one
\* out, so any exception of a command leaves search_bucket.
archive_phase(bucket_url, urls, fault, e, k, results, cmds) ==
    IF e > Len(archive_types)
    THEN [results |-> results, cmds |-> cmds, raised |-> FALSE]
    ELSE IF k > Len(patterns(bucket_url, archive_types[e]))
    THEN archive_phase(bucket_url, urls, fault, e + 1, 1, results, cmds)
    ELSE LET ext == archive_types[e]
         IN  CHOOSE r \in
                { IF resp.raised
                  THEN [results |-> results, cmds |-> cmds + 1, raised |-> TRUE]
                  ELSE archive_phase(bucket_url, urls, fault, e, k + 1,
                                     pattern_step(results, ext, resp), cmds + 1)
                  : resp \in {run_gcloud_command(patterns(bucket_url, ext)[k], urls,
                                                 FaultAt(fault, "archive", e, k))} } : TRUE

\* search_bucket(bucket_url): the records, the number of archive listings
\* and of other listings issued, and whether an exception left the call.
search_bucket(bucket_url, urls, fault) ==
    IF bucket_url = skipped_bucket
    THEN [results |-> <<>>, cmds |-> 0, other |-> 0, raised |-> FALSE]
    ELSE CHOOSE r \in
            { [results |-> a.results, cmds |-> a.cmds, raised |-> a.raised,
               other |-> root_phase(bucket_url)
                         + broad_phase(bucket_url, urls, fault, 1)]
              : a \in {archive_phase(bucket_url, urls, fault, 1, 1, <<>>, 0)} } : TRUE

\* ------------------------------------------------------------- the world

ProjectIds == <<"p1", "p2", "p3", "p4", "p5", "p6">>
BucketNames == <<"b1", "b2", "b3", "b4", "b5", "b6">>

\* The projects of the organization.
Projects == {ProjectIds[i] : i \in 1..MaxProjects}

BucketUrl(name) == <<"gs://", name, "/">>

\* What `gsutil ls` prints in the context of the i-th project: the first
\* project holds one bucket, the second the skipped bucket, a line that is
\* no bucket root, and one bucket; the others hold none.
RunBucketLines(i) ==
    IF i = 1 THEN <<BucketUrl(BucketNames[1])>>
    ELSE IF i = 2
    THEN <<skipped_bucket, <<"gs://", BucketNames[2]>>, BucketUrl(BucketNames[2])>>
    ELSE <<>>

\* The objects of the buckets of a run, by bucket URL, in listing order.
RunObjects ==
    (BucketUrl(BucketNames[1]) :> <<BucketUrl(BucketNames[1]) \o <<"a", ".", "zip">>>>)
    @@ (BucketUrl(BucketNames[2]) :>
            <<BucketUrl(BucketNames[2]) \o <<"d", "/", "y", ".", "tar">>>>)
    @@ (skipped_bucket :> <<skipped_bucket \o <<"v", ".", "zip">>>>)

\* What the project enumeration can print: nothing, or the projects in
\* order (any non-empty prefix), possibly with blank lines around them.
EnumOutputs ==
    {<<>>}
    \cup {[i \in 1..n |-> <<ProjectIds[i]>>] : n \in 1..MaxProjects}
    \cup {<< <<>>, <<ProjectIds[1]>>, <<>> >>}

\* The listing faults a full run is checked under.
RunFaults ==
    {NoFault}
    \cup [kind : {"fail", "raise"}, phase : {"archive"}, ext : {1, 2}, pat : {1}]

\* The bucket, the known bucket and a second bucket of a single search.
SearchBucket == BucketUrl("s1")
KnownBucket == BucketUrl(known_bucket_name)
OtherBucket == BucketUrl("s2")

\* Object names a searched bucket may hold, in listing order.
SearchNames ==
    << <<"a", ".", "zip">>,
       <<"c", ".", "tar", ".", "gz">>,
       <<"d", "/", "b", ".", "zip">>,
       <<"d", "/", "e", ".", "tar">>,
       <<"d", "/", "g", ".", ".", "zip">>,
       <<"f", ".", "txt">> >>

\* The bucket listings a single search is checked under.
SearchListings ==
    { <<>>, <<SearchBucket>>, <<skipped_bucket, SearchBucket>>, <<KnownBucket>>,
      <<OtherBucket, <<"gs://", "s1">>, SearchBucket>> }

RECURSIVE Pick(_, _, _)
\* The names of SearchNames chosen by a set of indices, as URLs of a bucket.
Pick(bucket_url, chosen, i) ==
    IF i > Len(SearchNames) THEN <<>>
    ELSE (IF i \in chosen THEN <<bucket_url \o SearchNames[i]>> ELSE <<>>)
         \o Pick(bucket_url, chosen, i + 1)

\* ------------------------------------------------------------------ state

\* A file that does not exist (a file that exists holds its first line).
Absent == <<>>

VARIABLES
    mainPc,             \* where run() is
    csvFile,            \* self.output_file: its rows, Absent before it exists
    errFile,            \* self.errors_file: its tokens, Absent before it exists
    projects,           \* run(): projects
    submitted,          \* executor.map: how many projects were submitted
    project_results,    \* run(): project_results, as far as collected
    all_results,        \* run(): all_results
    permission_issues,  \* run(): permission_issues
    summary,            \* the counts run() prints at its end
    activeProject,      \* gcloud's process-wide active project
    wpc,                \* each project's future / process_project position
    bucket_list,        \* process_project: buckets
    bidx,               \* process_project: index of the bucket being scanned
    results,            \* process_project: results
    outcome,            \* what process_project returned
    openPos,            \* the file offset of the errors file at open
    bucketLines,        \* the environment: `gsutil ls` output per project
    objects,            \* the environment: the objects of each bucket
    enumOutcome,        \* observed: how the enumeration command ended
    lsContext,          \* observed: the active project when `gsutil ls` ran
    searchCalls,        \* observed: calls of search_bucket per project
    archiveCmds,        \* observed: archive listings issued per project
    otherCmds,          \* observed: other commands issued per project
    faultLog,           \* observed: the fault of each search, per project
    runs,               \* observed: how often process_project was entered
    completed           \* observed: the projects in completion order

vars == << mainPc, csvFile, errFile, projects, submitted, project_results,
           all_results, permission_issues, summary, activeProject, wpc,
           bucket_list, bidx, results, outcome, openPos, bucketLines, objects,
           enumOutcome, lsContext, searchCalls, archiveCmds, otherCmds,
           faultLog, runs, completed >>

mainVars == << mainPc, csvFile, projects, submitted, project_results,
               all_results, permission_issues, summary, enumOutcome >>
workerVars == << bucket_list, bidx, results, outcome, openPos, lsContext,
                 searchCalls, archiveCmds, otherCmds, faultLog, runs >>
worldVars == << bucketLines, objects >>

\* A faulty variant of RunOrder: the projects are enumerated before the files exist.
RunOrderEnumerateFirst ==
    << "check_auth", "get_projects", "create_output", "create_errors",
       "submit", "collect", "aggregate", "write_csv", "summary", "done" >>

\* The statements of run() in program order.
RunOrder ==
    << "check_auth", "create_output", "create_errors", "get_projects",
       "submit", "collect", "aggregate", "write_csv", "summary", "done" >>

StepAfter(pc) ==
    RunOrder[(CHOOSE i \in 1..Len(RunOrder) : RunOrder[i] = pc) + 1]

\* The exit status of the process once run() has ended.
ExitStatus ==
    IF mainPc \in {"done", "return_no_projects"} THEN 0
    ELSE IF mainPc \in {"exit_auth", "exit_enum", "raised"} THEN 1
    ELSE -1

Running == {p \in Projects : wpc[p] \in
              {"set_project", "list_buckets", "denied_open", "denied_flush", "scan"}}

InitWorkers ==
    /\ activeProject = "unset"
    /\ wpc = [p \in Projects |-> "idle"]
    /\ bucket_list = [p \in Projects |-> <<>>]
    /\ bidx = [p \in Projects |-> 0]
    /\ results = [p \in Projects |-> <<>>]
    /\ outcome = [p \in Projects |-> [results |-> <<>>, has_permission |-> TRUE]]
    /\ openPos = [p \in Projects |-> 0]
    /\ lsContext = [p \in Projects |-> "none"]
    /\ searchCalls = [p \in Projects |-> 0]
    /\ archiveCmds = [p \in Projects |-> 0]
    /\ otherCmds = [p \in Projects |-> 0]
    /\ faultLog = [p \in Projects |-> <<>>]
    /\ runs = [p \in Projects |-> 0]
    /\ completed = <<>>

\* The state when run() is entered, in the fixed world of a run.
Init ==
    /\ mainPc = RunOrder[1]
    /\ csvFile = Absent
    /\ errFile = Absent
    /\ projects = <<>>
    /\ submitted = 0
    /\ project_results = <<>>
    /\ all_results = <<>>
    /\ permission_issues = 0
    /\ summary = [files |-> -1, issues |-> -1]
    /\ enumOutcome = "none"
    /\ bucketLines = [p \in Projects |->
                        RunBucketLines(CHOOSE i \in 1..MaxProjects : ProjectIds[i] = p)]
    /\ objects = RunObjects
    /\ InitWorkers

\* --------------------------------------------------------- the main thread

\* check_auth: an active account, no active account, or a failed command.
CheckAuth ==
    /\ mainPc = "check_auth"
    /\ \E out \in {"active", "none", "error"} :
          mainPc' = IF out = "active" THEN StepAfter("check_auth") ELSE "exit_auth"
    /\ UNCHANGED << csvFile, errFile, projects, submitted, project_results,
                    all_results, permission_issues, summary, enumOutcome,
                    activeProject, wpc, completed, workerVars, worldVars >>

\* with open(self.output_file, 'w'): writer.writeheader()
CreateOutput ==
    /\ mainPc = "create_output"
    /\ csvFile' = <<CsvHeader>>
    /\ mainPc' = StepAfter("create_output")
    /\ UNCHANGED << errFile, projects, submitted, project_results, all_results,
                    permission_issues, summary, enumOutcome, activeProject, wpc,
                    completed, workerVars, worldVars >>

\* with open(self.errors_file, 'w'): f.write("# Projects with ...\n")
CreateErrors ==
    /\ mainPc = "create_errors"
    /\ errFile' = ErrorsComment
    /\ mainPc' = StepAfter("create_errors")
    /\ UNCHANGED << csvFile, projects, submitted, project_results, all_results,
                    permission_issues, summary, enumOutcome, activeProject, wpc,
                    completed, workerVars, worldVars >>

\* get_projects and the test of its result in run(): the command fails, or
\* prints `lines`.  sys.exit(1) when it failed or printed nothing.
GetProjects ==
    /\ mainPc = "get_projects"
    /\ \E success \in BOOLEAN : \E lines \in EnumOutputs :
          LET stdout == Strip(lines)
              found  == NonBlank(stdout)
          IN  /\ success \/ lines = <<>>
              /\ enumOutcome' = IF ~success THEN "failed"
                                ELSE IF stdout = <<>> THEN "empty" ELSE "listed"
              /\ IF ~success \/ stdout = <<>>
                 THEN mainPc' = "exit_enum" /\ projects' = projects
                 ELSE /\ projects' = [i \in 1..Len(found) |-> found[i][1]]
                      /\ mainPc' = IF found = <<>> THEN "return_no_projects"
                                   ELSE StepAfter("get_projects")
    /\ UNCHANGED << csvFile, errFile, submitted, project_results, all_results,
                    permission_issues, summary, activeProject, wpc, completed,
                    workerVars, worldVars >>

\* executor.map submits the projects one by one, in order.
Submit ==
    /\ mainPc = "submit"
    /\ submitted < Len(projects)
    /\ wpc' = [wpc EXCEPT ![projects[submitted + 1]] = "pending"]
    /\ submitted' = submitted + 1
    /\ mainPc' = IF submitted + 1 = Len(projects) THEN StepAfter("submit") ELSE mainPc
    /\ UNCHANGED << csvFile, errFile, projects, project_results, all_results,
                    permission_issues, summary, enumOutcome, activeProject,
                    completed, workerVars, worldVars >>

\* A faulty variant of NextOutcome: the outcomes are taken as the projects complete.
NextOutcomeAsCompleted ==
    IF Len(project_results) < Len(completed)
    THEN {completed[Len(project_results) + 1]} ELSE {}

\* The project whose outcome list(executor.map(...)) takes next: the next
\* one in submission order, once its future is done.
NextOutcome ==
    {p \in {projects[Len(project_results) + 1]} : wpc[p] \in {"returned", "raised"}}

\* A faulty variant of FanOutComplete: the fan-out ends with the first outcome.
FanOutCompleteAfterFirst == project_results' # <<>>

\* list(executor.map(...)) has every outcome.
FanOutComplete == Len(project_results') = Len(projects)

\* The result iterator of executor.map yields one outcome.
Collect ==
    /\ mainPc = "collect"
    /\ \E p \in NextOutcome :
          /\ wpc[p] = "returned"
          /\ project_results' = Append(project_results, outcome[p])
          /\ mainPc' = IF FanOutComplete THEN StepAfter("collect") ELSE mainPc
    /\ UNCHANGED << csvFile, errFile, projects, submitted, all_results,
                    permission_issues, summary, enumOutcome, activeProject, wpc,
                    completed, workerVars, worldVars >>

\* The result iterator re-raises the exception of a project: the futures not
\* yet started are cancelled and the exception leaves the with block.
CollectRaise ==
    /\ mainPc = "collect"
    /\ \E p \in NextOutcome : wpc[p] = "raised"
    /\ wpc' = [q \in Projects |-> IF wpc[q] = "pending" THEN "cancelled" ELSE wpc[q]]
    /\ mainPc' = "unwinding"
    /\ UNCHANGED << csvFile, errFile, projects, submitted, project_results,
                    all_results, permission_issues, summary, enumOutcome,
                    activeProject, completed, workerVars, worldVars >>

\* ThreadPoolExecutor.__exit__ waits for the running workers, then the
\* exception leaves run().
Unwind ==
    /\ mainPc = "unwinding"
    /\ Running = {}
    /\ mainPc' = "raised"
    /\ UNCHANGED << csvFile, errFile, projects, submitted, project_results,
                    all_results, permission_issues, summary, enumOutcome,
                    activeProject, wpc, completed, workerVars, worldVars >>

\* for results, has_permission in project_results: ...
Aggregate ==
    /\ mainPc = "aggregate"
    /\ all_results' =
          Concat([i \in 1..Len(project_results) |-> project_results[i].results])
    /\ permission_issues' =
          Cardinality({i \in 1..Len(project_results) :
                          ~project_results[i].has_permission})
    /\ mainPc' = StepAfter("aggregate")
    /\ UNCHANGED << csvFile, errFile, projects, submitted, project_results,
                    summary, enumOutcome, activeProject, wpc, completed,
                    workerVars, worldVars >>

\* with open(self.output_file, 'a'): writer.writerows(all_results)
WriteCsv ==
    /\ mainPc = "write_csv"
    /\ csvFile' = csvFile \o all_results
    /\ mainPc' = StepAfter("write_csv")
    /\ UNCHANGED << errFile, projects, submitted, project_results, all_results,
                    permission_issues, summary, enumOutcome, activeProject, wpc,
                    completed, workerVars, worldVars >>

\* The closing prints of run().
Summary ==
    /\ mainPc = "summary"
    /\ summary' = [files |-> Len(all_results), issues |-> permission_issues]
    /\ mainPc' = StepAfter("summary")
    /\ UNCHANGED << csvFile, errFile, projects, submitted, project_results,
                    all_results, permission_issues, enumOutcome, activeProject,
                    wpc, completed, workerVars, worldVars >>

\* ------------------------------------------------------------- the workers

\* A worker thread of the pool takes a pending project.
StartWorker(p) ==
    /\ wpc[p] = "pending"
    /\ Cardinality(Running) < max_workers
    /\ wpc' = [wpc EXCEPT ![p] = "set_project"]
    /\ runs' = [runs EXCEPT ![p] = @ + 1]
    /\ UNCHANGED << mainVars, errFile, activeProject, completed, bucket_list,
                    bidx, results, outcome, openPos, lsContext, searchCalls,
                    archiveCmds, otherCmds, faultLog, worldVars >>

\* get_buckets, first command: gcloud config set project <project_id>.
\* A failure or an exception makes get_buckets return ([], False).
SetProject(p) ==
    /\ wpc[p] = "set_project"
    /\ \E out \in {"ok", "fail", "raise"} :
          /\ activeProject' = IF out = "ok" THEN p ELSE activeProject
          /\ wpc' = [wpc EXCEPT ![p] = IF out = "ok" THEN "list_buckets"
                                       ELSE "denied_open"]
    /\ otherCmds' = [otherCmds EXCEPT ![p] = @ + 1]
    /\ UNCHANGED << mainVars, errFile, completed, bucket_list, bidx, results,
                    outcome, openPos, lsContext, searchCalls, archiveCmds,
                    faultLog, runs, worldVars >>

\* [b for b in buckets.split('\n') if b and b.endswith('/')]
BucketFilter(lines) == SelectSeq(lines, LAMBDA b : b # <<>> /\ EndsWith(b, <<"/">>))

\* A faulty variant of ScanOutcome: the scan returns has_permission = False.
ScanOutcomeDenied(rs) == [results |-> rs, has_permission |-> FALSE]

\* return results, True
ScanOutcome(rs) == [results |-> rs, has_permission |-> TRUE]

\* return results, True -- the project holds no bucket
NoBucketsOutcome(rs) == [results |-> rs, has_permission |-> TRUE]

\* return results, False
DeniedOutcome(rs) == [results |-> rs, has_permission |-> FALSE]

\* get_buckets, second command: gsutil ls, which lists the buckets of the
\* active project (a failure or an exception gives ([], False)); then the
\* tests of process_project on what came back.
ListBuckets(p) ==
    /\ wpc[p] = "list_buckets"
    /\ otherCmds' = [otherCmds EXCEPT ![p] = @ + 1]
    /\ \E out \in {"ok", "fail", "raise"} :
          LET found == BucketFilter(Strip(bucketLines[activeProject]))
          IN  IF out # "ok"
              THEN /\ wpc' = [wpc EXCEPT ![p] = "denied_open"]
                   /\ lsContext' = IF out = "raise" THEN lsContext
                                   ELSE [lsContext EXCEPT ![p] = activeProject]
                   /\ UNCHANGED << bucket_list, bidx, outcome, completed >>
              ELSE /\ lsContext' = [lsContext EXCEPT ![p] = activeProject]
                   /\ IF found = <<>>
                      THEN /\ wpc' = [wpc EXCEPT ![p] = "returned"]
                           /\ outcome' = [outcome EXCEPT ![p] = NoBucketsOutcome(results[p])]
                           /\ completed' = Append(completed, p)
                           /\ UNCHANGED << bucket_list, bidx >>
                      ELSE /\ wpc' = [wpc EXCEPT ![p] = "scan"]
                           /\ bucket_list' = [bucket_list EXCEPT ![p] = found]
                           /\ bidx' = [bidx EXCEPT ![p] = 1]
                           /\ UNCHANGED << outcome, completed >>
    /\ UNCHANGED << mainVars, errFile, activeProject, results, openPos,
                    searchCalls, archiveCmds, faultLog, runs, worldVars >>

\* with open(self.errors_file, 'a') as f: f.write(...) -- the file is opened,
\* its offset is the end of the file, and the line goes to the buffer of f.
\* Opening may raise OSError, which leaves process_project.
DeniedOpen(p) ==
    /\ wpc[p] = "denied_open"
    /\ \E out \in {"ok", "raise"} :
          IF out = "ok"
          THEN /\ wpc' = [wpc EXCEPT ![p] = "denied_flush"]
               /\ openPos' = [openPos EXCEPT ![p] = Len(errFile)]
               /\ UNCHANGED completed
          ELSE /\ wpc' = [wpc EXCEPT ![p] = "raised"]
               /\ completed' = Append(completed, p)
               /\ UNCHANGED openPos
    /\ UNCHANGED << mainVars, errFile, activeProject, bucket_list, bidx,
                    results, outcome, lsContext, searchCalls, archiveCmds,
                    otherCmds, faultLog, runs, worldVars >>

\* A faulty variant of AppendWrite: the buffer is written at the offset the file had
\* when it was opened.
AppendWriteAtOpenOffset(file, pos, buf) ==
    SubSeq(file, 1, pos) \o buf \o SubSeq(file, pos + Len(buf) + 1, Len(file))

\* One write(2) on a descriptor opened with O_APPEND: the buffer lands at
\* the end of the file, whatever the offset at open was.
AppendWrite(file, pos, buf) == file \o buf

\* The with block closes f: the buffer is flushed by one write, and
\* process_project returns (results, False).
DeniedFlush(p) ==
    /\ wpc[p] = "denied_flush"
    /\ errFile' = AppendWrite(errFile, openPos[p], <<p, "\n">>)
    /\ wpc' = [wpc EXCEPT ![p] = "returned"]
    /\ outcome' = [outcome EXCEPT ![p] = DeniedOutcome(results[p])]
    /\ completed' = Append(completed, p)
    /\ UNCHANGED << mainVars, activeProject, bucket_list, bidx, results,
                    openPos, lsContext, searchCalls, archiveCmds, otherCmds,
                    faultLog, runs, worldVars >>

ObjectsOf(bucket_url) ==
    IF bucket_url \in DOMAIN objects THEN objects[bucket_url] ELSE <<>>

\* {'project_id': project_id, 'bucket_url': bucket_url, **result}
Merge(project_id, bucket_url, rs) ==
    [i \in 1..Len(rs) |->
        [project_id |-> project_id, bucket_url |-> bucket_url,
         file_type |-> rs[i].file_type, file_path |-> rs[i].file_path]]

\* The faults among F that name a command search_bucket issues for the bucket:
\* none for the skipped bucket, the root listing only for the known bucket.
FaultsFor(bucket_url, F) ==
    IF bucket_url = skipped_bucket THEN {NoFault}
    ELSE {f \in F : f.phase = "root" => is_known_bucket(bucket_url)}

\* One turn of `for bucket_url in buckets`: search_bucket under one of the
\* faults F, its records merged into results; after the last bucket
\* process_project returns (results, True).
Scan(p, F) ==
    /\ wpc[p] = "scan"
    /\ \E fault \in FaultsFor(bucket_list[p][bidx[p]], F) :
       \E found \in {search_bucket(bucket_list[p][bidx[p]],
                                   ObjectsOf(bucket_list[p][bidx[p]]), fault)} :
       \E rs \in {results[p] \o Merge(p, bucket_list[p][bidx[p]], found.results)} :
              /\ searchCalls' = [searchCalls EXCEPT ![p] = @ + 1]
              /\ archiveCmds' = [archiveCmds EXCEPT ![p] = @ + found.cmds]
              /\ otherCmds' = [otherCmds EXCEPT ![p] = @ + found.other]
              /\ faultLog' = [faultLog EXCEPT ![p] = Append(@, fault)]
              /\ IF found.raised
                 THEN /\ wpc' = [wpc EXCEPT ![p] = "raised"]
                      /\ completed' = Append(completed, p)
                      /\ UNCHANGED << results, bidx, outcome >>
                 ELSE /\ results' = [results EXCEPT ![p] = rs]
                      /\ IF bidx[p] = Len(bucket_list[p])
                         THEN /\ wpc' = [wpc EXCEPT ![p] = "returned"]
                              /\ outcome' = [outcome EXCEPT ![p] = ScanOutcome(rs)]
                              /\ completed' = Append(completed, p)
                              /\ UNCHANGED bidx
                         ELSE /\ bidx' = [bidx EXCEPT ![p] = @ + 1]
                              /\ UNCHANGED << wpc, outcome, completed >>
    /\ UNCHANGED << mainVars, errFile, activeProject, bucket_list, openPos,
                    lsContext, runs, worldVars >>

\* ---------------------------------------------------------- specifications

Main ==
    \/ CheckAuth \/ CreateOutput \/ CreateErrors \/ GetProjects
    \/ Submit \/ Collect \/ CollectRaise \/ Unwind
    \/ Aggregate \/ WriteCsv \/ Summary

Next ==
    \/ Main
    \/ \E p \in Projects :
          \/ StartWorker(p) \/ SetProject(p) \/ ListBuckets(p)
          \/ DeniedOpen(p) \/ DeniedFlush(p) \/ Scan(p, RunFaults)

\* A whole run in the fixed world.
Spec == Init /\ [][Next]_vars

\* run() has enumerated one project, in a world drawn from the listings and
\* the sets of objects of a single search.
InitSearch ==
    /\ mainPc = "submit"
    /\ csvFile = <<CsvHeader>>
    /\ errFile = ErrorsComment
    /\ projects = <<ProjectIds[1]>>
    /\ submitted = 0
    /\ project_results = <<>>
    /\ all_results = <<>>
    /\ permission_issues = 0
    /\ summary = [files |-> -1, issues |-> -1]
    /\ enumOutcome = "listed"
    /\ \E listing \in SearchListings :
          bucketLines = [p \in Projects |-> IF p = ProjectIds[1] THEN listing ELSE <<>>]
    /\ \E chosen \in SUBSET (1..Len(SearchNames)) :
          /\ Len(bucketLines[ProjectIds[1]]) > 2 => Cardinality(chosen) <= 1
          /\ objects = [b \in {SearchBucket, KnownBucket, OtherBucket, skipped_bucket}
                        |-> IF b = OtherBucket
                            THEN <<b \o SearchNames[1]>>
                            ELSE Pick(b, chosen, 1)]
    /\ InitWorkers

NextSearch ==
    \/ Submit \/ Collect \/ CollectRaise \/ Unwind
    \/ Aggregate \/ WriteCsv \/ Summary
    \/ \E p \in Projects :
          \/ StartWorker(p) \/ SetProject(p) \/ ListBuckets(p)
          \/ DeniedOpen(p) \/ DeniedFlush(p) \/ Scan(p, Faults)

\* The processing of one project under every fault of a search.
SpecSearch == InitSearch /\ [][NextSearch]_vars

\* ------------------------------------------------------------------ claims

Returned(p) == wpc[p] = "returned"
DeniedProject(p) == Returned(p) /\ ~outcome[p].has_permission
AfterCsvWrite == mainPc \in {"summary", "done"}
Aggregated == mainPc \in {"write_csv", "summary", "done"}

\* The records of the projects named by a sequence, concatenated in its order.
RecordsInOrder(order) == Concat([i \in 1..Len(order) |-> outcome[order[i]].results])

\* C1: a project whose process_project returned has_permission = false has
\* an empty record list, and search_bucket was never called and no archive
\* listing was issued for it.
C1_DeniedProjectIsNeverSearched ==
    \A p \in Projects :
        DeniedProject(p) =>
            /\ outcome[p].results = <<>>
            /\ searchCalls[p] = 0
            /\ archiveCmds[p] = 0

\* C1 witness: one project was denied while another was searched.
C1_Witness ==
    \E p, q \in Projects : DeniedProject(p) /\ Returned(q) /\ searchCalls[q] > 0

\* C2: whenever get_buckets(P) ran its `gsutil ls`, the active project was P,
\* and every bucket in P's records is a bucket listed for P.
C2_ListingRunsInOwnContext ==
    \A p \in Projects :
        /\ lsContext[p] # "none" => lsContext[p] = p
        /\ \A i \in 1..Len(results[p]) :
              results[p][i].bucket_url \in Range(bucketLines[p])

\* C3: no failure or exception of a project's commands or of its append to
\* the errors file leaves process_project and ends run() through the fan-out
\* (run() never ends by an exception that a project raised or that left
\* projects cancelled).
C3_NoFailureLeavesTheFanOut ==
    mainPc = "raised" => \A p \in Projects : wpc[p] \notin {"raised", "cancelled"}

\* C4 as claimed: the aggregate is the concatenation of the outcomes in the
\* order in which the projects completed.
C4_AggregateInCompletionOrder ==
    Aggregated => all_results = RecordsInOrder(completed)

\* C4 as amended: the aggregate, and the body of the CSV, is the
\* concatenation of the outcomes in the order in which the projects were
\* enumerated and submitted, whatever the order in which they completed.
C4_AggregateInSubmissionOrder ==
    /\ Aggregated => all_results = RecordsInOrder(projects)
    /\ AfterCsvWrite => csvFile = <<CsvHeader>> \o RecordsInOrder(projects)

\* C4 witness: the second project completed first, both have records, and
\* the CSV is written.
C4_Witness ==
    /\ mainPc = "done"
    /\ Len(projects) >= 2
    /\ completed[1] = projects[2]
    /\ \A i \in 1..Len(projects) : outcome[projects[i]].results # <<>>

\* C5: an enumeration that succeeds with an empty list ends run() on the
\* non-fatal path, with exit status 0, and only such an enumeration does.
C5_EmptyEnumerationIsNotFatal ==
    /\ enumOutcome = "empty" => mainPc = "return_no_projects" /\ ExitStatus = 0
    /\ mainPc = "return_no_projects" => enumOutcome = "empty"

RECURSIVE SplitLines(_, _)
\* The lines of a file: the tokens before each "\n", and what follows the
\* last "\n" when the file does not end with one.
SplitLines(tokens, line) ==
    IF tokens = <<>> THEN (IF line = <<>> THEN <<>> ELSE <<line>>)
    ELSE IF Head(tokens) = "\n" THEN <<line>> \o SplitLines(Tail(tokens), <<>>)
    ELSE SplitLines(Tail(tokens), Append(line, Head(tokens)))

DeniedSet == {p \in Range(projects) : DeniedProject(p)}

\* C6: when run() is done the errors file holds its comment line and then
\* exactly one complete line per denied project: every line is the ID of a
\* denied project, no ID is missing or repeated, and the number of entries
\* is the number of permission issues the summary reports.
C6_ErrorsFileListsTheDenied ==
    mainPc = "done" =>
        LET lines   == SplitLines(errFile, <<>>)
            entries == Tail(lines)
        IN  /\ errFile[Len(errFile)] = "\n"
            /\ <<lines[1][1], "\n">> = ErrorsComment
            /\ \A i \in 1..Len(entries) :
                  Len(entries[i]) = 1 /\ entries[i][1] \in DeniedSet
            /\ {entries[i][1] : i \in 1..Len(entries)} = DeniedSet
            /\ Len(entries) = Cardinality(DeniedSet)
            /\ Len(entries) = summary.issues

\* C6 witness: two denied projects had the errors file open at the same
\* time (both opened it at the same length), and run() is done.
C6_Witness ==
    /\ mainPc = "done"
    /\ \E p, q \in DeniedSet : p # q /\ openPos[p] = openPos[q]

\* C7: every enumerated project is submitted and process_project is entered
\* exactly once for it; the CSV holds only its header until every project
\* has completed; and the rows written are as many as the records of all
\* the projects together.
C7_CsvWrittenOnceAllCompleted ==
    /\ \A p \in Projects : runs[p] <= 1
    /\ mainPc \in {"collect", "aggregate", "write_csv", "summary", "done"} =>
          \A i \in 1..Len(projects) : wpc[projects[i]] # "idle"
    /\ (csvFile # Absent /\ ~AfterCsvWrite) => csvFile = <<CsvHeader>>
    /\ AfterCsvWrite =>
          /\ \A i \in 1..Len(projects) :
                Returned(projects[i]) /\ runs[projects[i]] = 1
          /\ Len(csvFile) - 1 =
                SumLen([i \in 1..Len(projects) |-> outcome[projects[i]].results])

\* C7 witness: run() is done, rows were written, one project was denied and
\* the projects did not complete in the order they were submitted.
C7_Witness ==
    /\ mainPc = "done"
    /\ Len(csvFile) > 1
    /\ DeniedSet # {}
    /\ completed # projects

\* The configured extensions an object URL ends with.
ExtensionsOf(url) == {e \in 1..Len(archive_types) : EndsWith(url, archive_types[e])}

Searched(p) == {i \in 1..Len(faultLog[p]) : bucket_list[p][i] # skipped_bucket}

\* C8: for every bucket but the skipped one search_bucket issues one archive
\* listing per extension, an object whose name ends with exactly one
\* extension yields exactly one record, and the records are as many as the
\* non-blank lines the listings returned.
C8_OneListingAndOneRecordPerExtension ==
    \A p \in Projects :
        (Returned(p) /\ outcome[p].has_permission) =>
            /\ archiveCmds[p] = Len(archive_types) * Cardinality(Searched(p))
            /\ \A i \in Searched(p) :
                  \A u \in Range(ObjectsOf(bucket_list[p][i])) :
                      (Cardinality(ExtensionsOf(u)) = 1
                       /\ faultLog[p][i].kind \in {"none", "blank"}) =>
                          Cardinality({j \in 1..Len(outcome[p].results) :
                                          outcome[p].results[j].file_path = u}) = 1

\* The archive listings of one search, in the order they are issued.
ArchiveCommands ==
    [c \in 1..(Len(archive_types) * 5) |-> [ext |-> ((c - 1) \div 5) + 1,
                                             pat |-> ((c - 1) % 5) + 1]]

FailsAt(fault, c) ==
    /\ fault.kind = "fail" /\ fault.phase = "archive"
    /\ fault.ext = ArchiveCommands[c].ext /\ fault.pat = ArchiveCommands[c].pat

\* What the archive listing c of a bucket returns when it does not fail.
ListedBy(bucket_url, c) ==
    Matches(patterns(bucket_url, archive_types[ArchiveCommands[c].ext])[ArchiveCommands[c].pat],
            ObjectsOf(bucket_url))

\* The records of the archive listings lo..hi of a bucket, a failed one
\* left out.
RecordsFrom(bucket_url, fault, lo, hi) ==
    IF bucket_url = skipped_bucket THEN <<>>
    ELSE Concat([j \in 1..(hi - lo + 1) |->
                    IF FailsAt(fault, lo + j - 1) THEN <<>>
                    ELSE RecordsOf(archive_types[ArchiveCommands[lo + j - 1].ext],
                                   ListedBy(bucket_url, lo + j - 1))])

\* C9: a listing command of search_bucket that fails contributes no record
\* and stops nothing: the records of the listings before it and after it
\* are all there, in order, and the project is not marked permission-denied.
C9_FailedListingIsSkipped ==
    \A p \in Projects :
        (Returned(p) /\ faultLog[p] # <<>>) =>
            /\ outcome[p].has_permission
            /\ outcome[p].results =
                  Concat([i \in 1..Len(faultLog[p]) |->
                            Merge(p, bucket_list[p][i],
                                  RecordsFrom(bucket_list[p][i], faultLog[p][i],
                                              1, Len(ArchiveCommands)))])

\* C9 witness: a listing that would have matched an object failed, and
\* listings before it and after it gave records.
C9_Witness ==
    \E p \in Projects : \E i \in 1..Len(faultLog[p]) : \E c \in 2..(Len(ArchiveCommands) - 1) :
        /\ Returned(p)
        /\ FailsAt(faultLog[p][i], c)
        /\ ListedBy(bucket_list[p][i], c) # <<>>
        /\ RecordsFrom(bucket_list[p][i], faultLog[p][i], 1, c - 1) # <<>>
        /\ RecordsFrom(bucket_list[p][i], faultLog[p][i], c + 1, Len(ArchiveCommands)) # <<>>

NothingProcessed ==
    \A p \in Projects :
        /\ wpc[p] = "idle" /\ runs[p] = 0
        /\ otherCmds[p] = 0 /\ archiveCmds[p] = 0 /\ searchCalls[p] = 0

\* C10: the two files are created after check_auth succeeded and before the
\* enumeration starts: the authentication exit leaves neither file and has
\* issued no enumeration, bucket or object listing; the enumeration exit
\* leaves both files with only their first line and no project processed.
C10_FilesCreatedBetweenAuthAndEnumeration ==
    /\ mainPc = "exit_auth" =>
          csvFile = Absent /\ errFile = Absent /\ enumOutcome = "none" /\ NothingProcessed
    /\ mainPc = "exit_enum" =>
          csvFile = <<CsvHeader>> /\ errFile = ErrorsComment /\ NothingProcessed
    /\ (csvFile # Absent \/ errFile # Absent) => mainPc \notin {"check_auth", "exit_auth"}
    /\ enumOutcome # "none" => csvFile # Absent /\ errFile # Absent

\* C10 witness: run() ended in the enumeration exit.
C10_Witness == mainPc = "exit_enum" /\ enumOutcome = "failed"

====
